---- MODULE Spec2Model ----
(***************************************************************************)
(* A model of the SEPTA / LocationIQ ingestion scripts:                    *)
(*   septa.py  store_septa_stops  - round-robin stop ingestion             *)
(*   pois.py   store_pois         - POI ingestion with a restart point     *)
(*   stats.py  calculate_data     - the aggregation over both tables       *)
(* One process runs one script; pc is its position.  The sqlite tables are *)
(* sequences of rows in rowid order; every INSERT is committed at once.    *)
(***************************************************************************)
EXTENDS Integers, Sequences, FiniteSets, TLC

VARIABLES
    pc,             \* position of the process in the script it runs
    stops,          \* table stops, rows in rowid order
    pois,           \* table pois, rows in rowid order
    septa_src,      \* SEPTA API: listing per stop type
    septa_status,   \* HTTP status of the three fetches of this invocation
    beeg_keys,      \* store_septa_stops: keys of the dict beeg_data, in order
    beeg_data,      \* store_septa_stops: remaining candidates per key
    num_inserted,   \* store_septa_stops: num_inserted
    stype,          \* store_septa_stops: stype
    septa_ret,      \* store_septa_stops: whether it has returned, and what
    poi_src,        \* LocationIQ: the POIs around each coordinate
    all_stops,      \* store_pois: all_stops, after the reordering
    idx,            \* store_pois: position of the for loop in all_stops
    inserted_count, \* store_pois: inserted_count
    count_for_radius, \* store_pois: count_for_radius of the stop visited
    pois_data,      \* store_pois: the rest of pois_data still to go through
    queries,        \* requests sent to LocationIQ by this invocation
    ret,            \* store_pois: the value returned, once it has returned
    rows_at_start,  \* rows in the written table when the invocation began
    r_idx,          \* calculate_data: position of the loop over POI_RADII
    data_by_type,   \* calculate_data: data_by_type of the last radius done
    results,        \* calculate_data: results
    kills,          \* how many times the process was killed from outside
    failures        \* how many LocationIQ requests got a non-success response

vars == <<pc, stops, pois, septa_src, septa_status, beeg_keys, beeg_data,
          num_inserted, stype, septa_ret, poi_src, all_stops, idx, inserted_count,
          count_for_radius, pois_data, queries, ret, r_idx, data_by_type,
          results, rows_at_start, kills, failures>>

stats_locals == <<r_idx, data_by_type, results>>

env == <<kills, failures>>

pois_locals == <<all_stops, idx, inserted_count, count_for_radius, pois_data,
                 queries, ret>>

septa_locals == <<septa_status, beeg_keys, beeg_data, num_inserted, stype,
                  septa_ret>>

----------------------------------------------------------------------------
(* Program constants *)

BATCH_SIZE == 25

STOP_TYPES == <<"bus_stops", "trolley_stops", "rail_stations">>

StopTypeSet == {STOP_TYPES[i] : i \in 1..Len(STOP_TYPES)}

HTTP_OK == 200

\* the statuses a request may get
HttpStatuses == {HTTP_OK, 500}

POI_RADII == <<416, 833, 1250>>

\* "limit": 50 of the LocationIQ request
POI_LIMIT == 50

\* count_for_radius < 50: a stop with 50 rows is not queried again
POI_ENOUGH == 50

(* Bounds of the model *)

MaxListing == 10

MaxKills == 1

MaxFailures == 1

NumAggStops == 3
\* stored stops in the states from which the ranking of calculate_data starts
NumRankStops == 7

\* the stored stops of the POI runs: one of each stop type
NumStops == Len(STOP_TYPES)

----------------------------------------------------------------------------
(* Helpers on sequences *)

Tail1(s) == SubSeq(s, 2, Len(s))

RemoveAt(s, i) == SubSeq(s, 1, i - 1) \o SubSeq(s, i + 1, Len(s))

IndexOf(s, x) == CHOOSE i \in 1..Len(s) : s[i] = x

----------------------------------------------------------------------------
(* The SEPTA API: one record per stop, with a source-assigned id. *)

TypeIndex(t) == CHOOSE i \in 1..Len(STOP_TYPES) : STOP_TYPES[i] = t

SeptaRecord(t, i) ==
    [location_id |-> i, location_name |-> 100 + i,
     location_lat |-> 100 * TypeIndex(t) + i, location_lon |-> i]

\* A listing of n stops; with dup the first stop is listed twice.
SeptaListing(t, n, dup) ==
    LET base == [i \in 1..n |-> SeptaRecord(t, i)]
    IN  IF dup /\ n >= 1 THEN <<base[1]>> \o base ELSE base

\* The listings the API may hold: 0, 1 or MaxListing stops per type.
SeptaSources ==
    {[t \in StopTypeSet |-> SeptaListing(t, n[t], dup)] :
        n \in [StopTypeSet -> {0, 1, MaxListing}], dup \in BOOLEAN}

\* fetch_septa_stops: the listing on status 200, [] otherwise.
fetch_septa_stops(t, status) ==
    IF status = HTTP_OK THEN septa_src[t] ELSE <<>>

----------------------------------------------------------------------------
(* Table stops *)

\* A key that takes the surrogate id for the source-assigned stop_id.
StopKey_SurrogateId(row) == <<row.stop_type, row.id>>

\* The natural key of a row: UNIQUE(stop_type, stop_id), and the WHERE clause
\* of the existence check.
StopKey(row) == <<row.stop_type, row.stop_id>>

\* SELECT 1 FROM stops WHERE stop_type=? AND stop_id=?  ... fetchone()
StopExists(t, id) == \E i \in 1..Len(stops) : StopKey(stops[i]) = <<t, id>>

\* The UNIQUE(stop_type, stop_id) constraint of the table.
StopsUniqueOk(row) == \A i \in 1..Len(stops) : StopKey(stops[i]) # StopKey(row)

NewStopRow(t, rec) ==
    [id |-> Len(stops) + 1, stop_type |-> t, stop_id |-> rec.location_id,
     name |-> rec.location_name, lat |-> rec.location_lat,
     lon |-> rec.location_lon]

StatsIdle == [r_idx |-> 1, data_by_type |-> <<>>, results |-> <<>>]

PoisIdle == [all_stops |-> <<>>, idx |-> 1, inserted_count |-> 0,
             count_for_radius |-> 0, pois_data |-> <<>>, queries |-> <<>>,
             ret |-> 0]

----------------------------------------------------------------------------
(* septa.py: store_septa_stops *)

\* The call has not returned: it is running, or the process died in it.
NotReturned == [returned |-> FALSE]

\* The call returned: the function body ends without a return statement, and
\* the value of the call is None.
ReturnedNone == [returned |-> TRUE, type |-> "NoneType"]

SeptaIdle == [septa_status |-> [t \in StopTypeSet |-> HTTP_OK],
              beeg_keys |-> <<>>,
              beeg_data |-> [t \in StopTypeSet |-> <<>>],
              num_inserted |-> 0,
              stype |-> STOP_TYPES[1],
              septa_ret |-> NotReturned]

\* A loop condition that lets the counter reach BATCH_SIZE + 1.
BelowBatch_Inclusive(n) == n <= BATCH_SIZE

\* num_inserted < BATCH_SIZE
BelowBatch(n) == n < BATCH_SIZE

\* The script is run: connect, fetch the three listings, num_inserted = 0.
SeptaBegin ==
    /\ pc \in {"septa_main", "septa_done"}
    /\ \E st \in [StopTypeSet -> HttpStatuses] :
          /\ septa_status' = st
          /\ beeg_data' = [t \in StopTypeSet |-> fetch_septa_stops(t, st[t])]
    /\ beeg_keys' = STOP_TYPES
    /\ num_inserted' = 0
    /\ stype' = STOP_TYPES[1]
    /\ septa_ret' = NotReturned
    /\ rows_at_start' = Len(stops)
    /\ pc' = "septa_loop"
    /\ UNCHANGED <<stops, pois, septa_src, stats_locals, env, poi_src, pois_locals>>

\* The head of the outer while loop.
SeptaLoop ==
    /\ pc = "septa_loop"
    /\ IF ~(BelowBatch(num_inserted) \/ Len(beeg_keys) = 0)
       THEN \* the loop ends; conn.close(); the function returns
            pc' = "septa_done" /\ septa_ret' = ReturnedNone /\ UNCHANGED stype
       ELSE IF Len(beeg_keys) = 0
       THEN \* ZeroDivisionError in num_inserted % len(beeg_data): the script ends
            pc' = "septa_done" /\ UNCHANGED <<stype, septa_ret>>
       ELSE /\ stype' = beeg_keys[(num_inserted % Len(beeg_keys)) + 1]
            /\ pc' = "septa_inner"
            /\ UNCHANGED septa_ret
    /\ UNCHANGED <<stops, pois, septa_src, stats_locals, septa_status, beeg_keys, beeg_data,
                   num_inserted, rows_at_start, env, poi_src, pois_locals>>

\* One iteration of the inner while loop, or its exit.
SeptaInner ==
    /\ pc = "septa_inner"
    /\ IF Len(beeg_data[stype]) > 0
       THEN LET rec == beeg_data[stype][1]
                rest == Tail1(beeg_data[stype])
            IN  IF ~StopExists(stype, rec.location_id)
                THEN IF StopsUniqueOk(NewStopRow(stype, rec))
                     THEN /\ stops' = Append(stops, NewStopRow(stype, rec))
                          /\ beeg_data' = [beeg_data EXCEPT ![stype] = rest]
                          /\ beeg_keys' = IF Len(rest) = 0
                                          THEN RemoveAt(beeg_keys, IndexOf(beeg_keys, stype))
                                          ELSE beeg_keys
                          /\ num_inserted' = num_inserted + 1
                          /\ pc' = "septa_loop"
                          /\ UNCHANGED <<septa_status, stype, septa_ret>>
                     ELSE \* sqlite3.IntegrityError: the process dies
                          /\ pc' = "septa_main"
                          /\ septa_status' = SeptaIdle.septa_status
                          /\ beeg_keys' = SeptaIdle.beeg_keys
                          /\ beeg_data' = SeptaIdle.beeg_data
                          /\ num_inserted' = SeptaIdle.num_inserted
                          /\ stype' = SeptaIdle.stype
                          /\ septa_ret' = SeptaIdle.septa_ret
                          /\ UNCHANGED stops
                ELSE /\ beeg_data' = [beeg_data EXCEPT ![stype] = rest]
                     /\ UNCHANGED <<stops, beeg_keys, num_inserted, pc,
                                    septa_status, stype, septa_ret>>
       ELSE /\ pc' = "septa_loop"
            /\ UNCHANGED <<stops, septa_locals>>
    /\ UNCHANGED <<pois, septa_src, stats_locals, rows_at_start, env, poi_src, pois_locals>>

\* The process is killed from outside; the committed rows stay.
SeptaKill ==
    /\ pc \in {"septa_loop", "septa_inner"}
    /\ kills < MaxKills
    /\ kills' = kills + 1
    /\ pc' = "septa_main"
    /\ septa_status' = SeptaIdle.septa_status
    /\ beeg_keys' = SeptaIdle.beeg_keys
    /\ beeg_data' = SeptaIdle.beeg_data
    /\ num_inserted' = SeptaIdle.num_inserted
    /\ stype' = SeptaIdle.stype
    /\ septa_ret' = SeptaIdle.septa_ret
    /\ UNCHANGED <<stops, pois, septa_src, stats_locals, rows_at_start, failures, poi_src, pois_locals>>

InitSepta ==
    /\ pc = "septa_main"
    /\ stops = <<>>
    /\ pois = <<>>
    /\ septa_src \in SeptaSources
    /\ septa_status = SeptaIdle.septa_status
    /\ beeg_keys = SeptaIdle.beeg_keys
    /\ beeg_data = SeptaIdle.beeg_data
    /\ num_inserted = SeptaIdle.num_inserted
    /\ stype = SeptaIdle.stype
    /\ septa_ret = SeptaIdle.septa_ret
    /\ rows_at_start = 0
    /\ kills = 0
    /\ failures = 0
    /\ poi_src = <<>>
    /\ all_stops = PoisIdle.all_stops
    /\ idx = PoisIdle.idx
    /\ inserted_count = PoisIdle.inserted_count
    /\ count_for_radius = PoisIdle.count_for_radius
    /\ pois_data = PoisIdle.pois_data
    /\ queries = PoisIdle.queries
    /\ ret = PoisIdle.ret
    /\ r_idx = StatsIdle.r_idx
    /\ data_by_type = StatsIdle.data_by_type
    /\ results = StatsIdle.results

NextSepta == SeptaBegin \/ SeptaLoop \/ SeptaInner \/ SeptaKill

SpecSepta == InitSepta /\ [][NextSepta]_vars

\* A running invocation keeps executing: the interpreter takes the next step.
FairSpecSepta == SpecSepta /\ WF_vars(SeptaLoop) /\ WF_vars(SeptaInner)

----------------------------------------------------------------------------
(* Claims on store_septa_stops *)

SeptaRunning == pc \in {"septa_loop", "septa_inner"}

\* The candidate at the head of the listing of category t is in the table.
HeadIsStored(t) ==
    /\ Len(beeg_data[t]) > 0
    /\ \E i \in 1..Len(stops) :
          /\ stops[i].stop_type = t
          /\ stops[i].stop_id = beeg_data[t][1].location_id

\* C1: whatever sequence of invocations ran, to completion or killed, the
\* table stops never holds two rows with the same (stop_type, stop_id).
C1_StopKeyUnique ==
    Cardinality({<<stops[i].stop_type, stops[i].stop_id>> : i \in 1..Len(stops)})
        = Len(stops)

\* C1 witness: after a kill, a later invocation has inserted rows and now
\* meets a candidate that an earlier invocation stored.
C1_Witness ==
    /\ pc = "septa_inner"
    /\ kills > 0
    /\ rows_at_start > 0
    /\ num_inserted > 0
    /\ HeadIsStored(stype)

\* C4: every invocation of store_septa_stops terminates: once running, it
\* reaches its return (or is killed from outside).
C4_Terminates == SeptaRunning ~> (pc \in {"septa_done", "septa_main"})

\* Exactly one category got a non-success response in this invocation.
OneCategoryFailed ==
    Cardinality({t \in StopTypeSet : septa_status[t] # HTTP_OK}) = 1

\* Every stop the API lists for category t is in the table.
AllStored(t) ==
    \A k \in 1..Len(septa_src[t]) :
        \E i \in 1..Len(stops) :
            /\ stops[i].stop_type = t
            /\ stops[i].stop_id = septa_src[t][k].location_id

\* C5: an invocation in which one category got a non-success response
\* returns, having inserted the new stops of the other categories up to the
\* cap.
C5_FailedCategorySkipped ==
    (SeptaRunning /\ OneCategoryFailed) ~>
        \/ pc = "septa_main"
        \/ /\ pc = "septa_done"
           /\ \/ num_inserted = BATCH_SIZE
              \/ \A t \in StopTypeSet : septa_status[t] = HTTP_OK => AllStored(t)

\* Category t still has a candidate that is not in the table.
Insertable(t) ==
    \E k \in 1..Len(beeg_data[t]) :
        ~\E i \in 1..Len(stops) :
            /\ stops[i].stop_type = t
            /\ stops[i].stop_id = beeg_data[t][k].location_id

\* The category after t in the cyclic order of STOP_TYPES that can still
\* give a new stop (t itself when no other can).
NextInRotation(t) ==
    LET n == Len(STOP_TYPES)
        at(k) == STOP_TYPES[((TypeIndex(t) - 1 + k) % n) + 1]
        k0 == CHOOSE k \in 1..n :
                 /\ Insertable(at(k))
                 /\ \A j \in 1..(k - 1) : ~Insertable(at(j))
    IN  at(k0)

\* C6: within one invocation, the insertion that follows an insertion from
\* category t comes from the next category after t, in the cyclic order
\* bus_stops, trolley_stops, rail_stations, that is not exhausted.
C6_RoundRobin ==
    [][(pc = "septa_inner" /\ num_inserted > 0 /\ Len(stops') = Len(stops) + 1)
        => stops'[Len(stops')].stop_type
             = NextInRotation(stops[Len(stops)].stop_type)]_vars

----------------------------------------------------------------------------
(* The LocationIQ API *)

\* dict.get(key, default)
Get(rec, key, default) == IF key \in DOMAIN rec THEN rec[key] ELSE default

Min(a, b) == IF a < b THEN a ELSE b

\* A place with many ATMs: more than the limit within the largest radius, and
\* one beyond it.
ManyPois ==
    [k \in 1..(POI_LIMIT + 2) |-> [distance |-> 24 * k, class |-> "atm", name |-> "A"]]
    \o <<[distance |-> 1300, class |-> "atm", name |-> "A"]>>

\* A place with few ATMs: one listed twice, two that differ in the name
\* only, one without class and name, and one that carries the default class
\* and name in the source.
FewPois ==
    << [distance |-> 100, class |-> "atm", name |-> "A"],
       [distance |-> 100, class |-> "atm", name |-> "A"],
       [distance |-> 100, class |-> "atm", name |-> "B"],
       [distance |-> 900],
       [distance |-> 900, class |-> "Unknown Category", name |-> "Unknown Name"] >>

PoiListings == {<<>>, FewPois, ManyPois}

\* The POIs around the stops of table T: only the first stop may be a place
\* with many.
PoiSources(T) ==
    LET coord(i) == <<T[i].lat, T[i].lon>>
    IN  {f \in [{coord(i) : i \in 1..Len(T)} -> PoiListings] :
            \A i \in 2..Len(T) : f[coord(i)] # ManyPois}

\* What the API answers for a coordinate and a radius on status 200: the
\* places within the radius, at most POI_LIMIT of them.
NearbyPois(lat, lon, radius) ==
    LET near == SelectSeq(poi_src[<<lat, lon>>], LAMBDA r : r.distance <= radius)
    IN  SubSeq(near, 1, Min(POI_LIMIT, Len(near)))

\* fetch_locationiq_pois: the listing on status 200, [] otherwise.
fetch_locationiq_pois(lat, lon, radius, status) ==
    IF status = HTTP_OK THEN NearbyPois(lat, lon, radius) ELSE <<>>

----------------------------------------------------------------------------
(* Table pois *)

\* An existence check with the category and the name bound the wrong way
\* round.
PoiExists_Swapped(stop_id, pdist, pcat, pname) ==
    \E i \in 1..Len(pois) :
        /\ pois[i].stop_id = stop_id
        /\ pois[i].distance = pdist
        /\ pois[i].category = pname
        /\ pois[i].name = pcat

\* SELECT * FROM pois WHERE stop_id=? AND distance=? AND category=? AND name=?
PoiExists(stop_id, pdist, pcat, pname) ==
    \E i \in 1..Len(pois) :
        /\ pois[i].stop_id = stop_id
        /\ pois[i].distance = pdist
        /\ pois[i].category = pcat
        /\ pois[i].name = pname

\* SELECT COUNT(*) FROM pois WHERE stop_id=?
PoiCount(stop_id) == Cardinality({i \in 1..Len(pois) : pois[i].stop_id = stop_id})

NewPoiRow(stop_id, pdist, pname, pcat) ==
    [id |-> Len(pois) + 1, stop_id |-> stop_id, distance |-> pdist,
     name |-> pname, category |-> pcat]

\* SELECT DISTINCT stop_id FROM pois ORDER BY stop_id DESC LIMIT 2
RECURSIVE SortDesc(_)
SortDesc(S) ==
    IF S = {} THEN <<>>
    ELSE LET m == CHOOSE x \in S : \A y \in S : y <= x
         IN  <<m>> \o SortDesc(S \ {m})

pois_stop_ids ==
    LET ids == SortDesc({pois[i].stop_id : i \in 1..Len(pois)})
    IN  SubSeq(ids, 1, Min(2, Len(ids)))

\* SELECT id, lat, lon, name FROM stops
SelectAllStops ==
    [i \in 1..Len(stops) |->
        [id |-> stops[i].id, lat |-> stops[i].lat, lon |-> stops[i].lon,
         name |-> stops[i].name]]

\* A test that still queries a stop holding exactly 50 rows.
NeedsPois_Inclusive(count) == count <= POI_ENOUGH

\* A stop counts as full once it holds a batch of rows.
NeedsPois_BatchIsEnough(count) == count < BATCH_SIZE

\* count_for_radius < 50
NeedsPois(count) == count < POI_ENOUGH

\* A reordering that forgets the stops before the restart point.
ReorderedStops_NoWrap ==
    LET all == SelectAllStops
    IN  IF Len(pois_stop_ids) = 2
        THEN LET indices == {i \in 1..Len(all) : all[i].id = pois_stop_ids[2]}
             IN  IF indices # {}
                 THEN SubSeq(all, CHOOSE i \in indices : \A j \in indices : i <= j,
                             Len(all))
                 ELSE all
        ELSE all

\* all_stops reordered to begin at the second-to-last stop_id of pois.
ReorderedStops ==
    LET all == SelectAllStops
    IN  IF Len(pois_stop_ids) = 2
        THEN LET second_to_last_stop_id == pois_stop_ids[2]
                 indices == {i \in 1..Len(all) : all[i].id = second_to_last_stop_id}
             IN  IF indices # {}
                 THEN LET start_index == CHOOSE i \in indices : \A j \in indices : i <= j
                      IN  SubSeq(all, start_index, Len(all))
                          \o SubSeq(all, 1, start_index - 1)
                 ELSE all
        ELSE all

----------------------------------------------------------------------------
(* pois.py: store_pois *)

\* The script is run: read the stops, find the restart point, reorder.
PoisBegin ==
    /\ pc \in {"pois_main", "pois_done"}
    /\ all_stops' = ReorderedStops
    /\ idx' = 1
    /\ inserted_count' = 0
    /\ count_for_radius' = 0
    /\ pois_data' = <<>>
    /\ queries' = <<>>
    /\ ret' = PoisIdle.ret
    /\ rows_at_start' = Len(pois)
    /\ pc' = "pois_for"
    /\ UNCHANGED <<stops, pois, septa_src, stats_locals, septa_locals, poi_src, env>>

\* The head of the for loop over all_stops: the stop is counted and, when it
\* holds fewer than 50 rows, queried.
PoisFor ==
    /\ pc = "pois_for"
    /\ IF idx > Len(all_stops) \/ inserted_count >= BATCH_SIZE
       THEN /\ pc' = "pois_done"
            /\ ret' = inserted_count
            /\ UNCHANGED <<idx, count_for_radius, pois_data, queries, failures>>
       ELSE LET stop == all_stops[idx]
            IN  /\ count_for_radius' = PoiCount(stop.id)
                /\ IF NeedsPois(PoiCount(stop.id))
                   THEN \E status \in HttpStatuses :
                          /\ status # HTTP_OK => failures < MaxFailures
                          /\ failures' = IF status = HTTP_OK THEN failures
                                         ELSE failures + 1
                          /\ pois_data' = fetch_locationiq_pois(stop.lat, stop.lon,
                                                               POI_RADII[3], status)
                          /\ queries' = Append(queries,
                                 [stop_id |-> stop.id, radius |-> POI_RADII[3],
                                  status |-> status])
                          /\ pc' = "pois_insert"
                          /\ UNCHANGED idx
                   ELSE /\ idx' = idx + 1
                        /\ UNCHANGED <<pc, pois_data, queries, failures>>
                /\ UNCHANGED ret
    /\ UNCHANGED <<stops, pois, septa_src, stats_locals, septa_locals, poi_src, all_stops,
                   inserted_count, rows_at_start, kills>>

\* One iteration of the loop over pois_data, or its end.
PoisInsert ==
    /\ pc = "pois_insert"
    /\ IF Len(pois_data) = 0
       THEN /\ idx' = idx + 1
            /\ pc' = "pois_for"
            /\ UNCHANGED <<pois, inserted_count, pois_data>>
       ELSE LET pd == pois_data[1]
                stop_id == all_stops[idx].id
                pdist == pd.distance
                pname == Get(pd, "name", "Unknown Name")
                pcat == Get(pd, "class", "Unknown Category")
            IN  IF ~PoiExists(stop_id, pdist, pcat, pname)
                THEN /\ pois' = Append(pois, NewPoiRow(stop_id, pdist, pname, pcat))
                     /\ inserted_count' = inserted_count + 1
                     /\ IF inserted_count + 1 >= BATCH_SIZE
                        THEN /\ idx' = idx + 1
                             /\ pois_data' = <<>>
                             /\ pc' = "pois_for"
                        ELSE /\ pois_data' = Tail1(pois_data)
                             /\ UNCHANGED <<idx, pc>>
                ELSE /\ pois_data' = Tail1(pois_data)
                     /\ UNCHANGED <<pois, inserted_count, idx, pc>>
    /\ UNCHANGED <<stops, septa_src, stats_locals, septa_locals, poi_src, all_stops,
                   count_for_radius, queries, ret, rows_at_start, env>>

\* The process is killed from outside; the committed rows stay.
PoisKill ==
    /\ pc \in {"pois_for", "pois_insert"}
    /\ kills < MaxKills
    /\ kills' = kills + 1
    /\ pc' = "pois_main"
    /\ all_stops' = PoisIdle.all_stops
    /\ idx' = PoisIdle.idx
    /\ inserted_count' = PoisIdle.inserted_count
    /\ count_for_radius' = PoisIdle.count_for_radius
    /\ pois_data' = PoisIdle.pois_data
    /\ queries' = PoisIdle.queries
    /\ ret' = PoisIdle.ret
    /\ UNCHANGED <<stops, pois, septa_src, stats_locals, septa_locals, poi_src,
                   rows_at_start, failures>>

\* The stops table after the first n insertions of store_septa_stops on full
\* listings: bus 1, trolley 1, rail 1, bus 2, ...
RECURSIVE StopsAfter(_)
StopsAfter(n) ==
    IF n = 0 THEN <<>>
    ELSE LET t == STOP_TYPES[((n - 1) % Len(STOP_TYPES)) + 1]
             rec == SeptaRecord(t, ((n - 1) \div Len(STOP_TYPES)) + 1)
         IN  Append(StopsAfter(n - 1),
                    [id |-> n, stop_type |-> t, stop_id |-> rec.location_id,
                     name |-> rec.location_name, lat |-> rec.location_lat,
                     lon |-> rec.location_lon])

InitPois ==
    /\ pc = "pois_main"
    /\ stops = StopsAfter(NumStops)
    /\ pois = <<>>
    /\ septa_src = [t \in StopTypeSet |-> <<>>]
    /\ septa_status = SeptaIdle.septa_status
    /\ beeg_keys = SeptaIdle.beeg_keys
    /\ beeg_data = SeptaIdle.beeg_data
    /\ num_inserted = SeptaIdle.num_inserted
    /\ stype = SeptaIdle.stype
    /\ septa_ret = SeptaIdle.septa_ret
    /\ poi_src \in PoiSources(stops)
    /\ all_stops = PoisIdle.all_stops
    /\ idx = PoisIdle.idx
    /\ inserted_count = PoisIdle.inserted_count
    /\ count_for_radius = PoisIdle.count_for_radius
    /\ pois_data = PoisIdle.pois_data
    /\ queries = PoisIdle.queries
    /\ ret = PoisIdle.ret
    /\ rows_at_start = 0
    /\ kills = 0
    /\ failures = 0
    /\ r_idx = StatsIdle.r_idx
    /\ data_by_type = StatsIdle.data_by_type
    /\ results = StatsIdle.results

NextPois == PoisBegin \/ PoisFor \/ PoisInsert \/ PoisKill

SpecPois == InitPois /\ [][NextPois]_vars

\* The head of the for loop when LocationIQ answers every request with 200.
PoisForOk == PoisFor /\ failures' = failures

NextPoisOk == PoisBegin \/ PoisForOk \/ PoisInsert \/ PoisKill

\* store_pois is run again and again against a source that always answers.
SpecPoisOk == InitPois /\ [][NextPoisOk]_vars

\* The driver calls again, and a running invocation keeps executing.
FairSpecPoisOk ==
    SpecPoisOk /\ WF_vars(PoisBegin) /\ WF_vars(PoisForOk) /\ WF_vars(PoisInsert)

----------------------------------------------------------------------------
(* stats.py: calculate_data *)

\* SELECT s.stop_type, s.name, COUNT(p.id) AS poi_count FROM stops s
\* LEFT JOIN pois p ON s.id = p.stop_id AND p.distance <= ?  GROUP BY s.id
JoinedRows(radius) ==
    [i \in 1..Len(stops) |->
        [stop_type |-> stops[i].stop_type,
         name |-> stops[i].name,
         poi_count |-> Cardinality({k \in 1..Len(pois) :
                          /\ pois[k].stop_id = stops[i].id
                          /\ pois[k].distance <= radius})]]

\* data_by_type[stop_type].append((name, poi_count)), over the rows in order
RECURSIVE GroupByType(_)
GroupByType(rows) ==
    IF rows = <<>> THEN <<>>
    ELSE LET before == GroupByType(SubSeq(rows, 1, Len(rows) - 1))
             row == rows[Len(rows)]
             item == <<row.name, row.poi_count>>
         IN  IF row.stop_type \in DOMAIN before
             THEN [before EXCEPT ![row.stop_type] = Append(@, item)]
             ELSE [t \in DOMAIN before \cup {row.stop_type} |->
                     IF t = row.stop_type THEN <<item>> ELSE before[t]]

\* A deduplication that keeps the count of the first stop of a name.
RECURSIVE UniqueByName_First(_)
UniqueByName_First(stops_list) ==
    IF stops_list = <<>> THEN <<>>
    ELSE LET before == UniqueByName_First(SubSeq(stops_list, 1, Len(stops_list) - 1))
             item == stops_list[Len(stops_list)]
         IN  IF \E k \in 1..Len(before) : before[k][1] = item[1]
             THEN before
             ELSE Append(before, item)

\* unique_dict: one entry per name, in first-seen order, with the largest
\* poi_count seen under the name; then the list of its items.
RECURSIVE UniqueByName(_)
UniqueByName(stops_list) ==
    IF stops_list = <<>> THEN <<>>
    ELSE LET before == UniqueByName(SubSeq(stops_list, 1, Len(stops_list) - 1))
             item == stops_list[Len(stops_list)]
         IN  IF \E k \in 1..Len(before) : before[k][1] = item[1]
             THEN [k \in 1..Len(before) |->
                     IF before[k][1] = item[1] /\ item[2] > before[k][2]
                     THEN item ELSE before[k]]
             ELSE Append(before, item)

\* A sort that puts an item before the items of equal poi_count.
RECURSIVE SortByCount_TiesReversed(_)
SortByCount_TiesReversed(l) ==
    IF l = <<>> THEN <<>>
    ELSE LET sorted == SortByCount_TiesReversed(SubSeq(l, 1, Len(l) - 1))
             item == l[Len(l)]
             n == Cardinality({k \in 1..Len(sorted) : sorted[k][2] < item[2]})
         IN  SubSeq(sorted, 1, n) \o <<item>> \o SubSeq(sorted, n + 1, Len(sorted))

\* list.sort(key=lambda x: x[1]): stable, ascending by poi_count
RECURSIVE SortByCount(_)
SortByCount(l) ==
    IF l = <<>> THEN <<>>
    ELSE LET sorted == SortByCount(SubSeq(l, 1, Len(l) - 1))
             item == l[Len(l)]
             n == Cardinality({k \in 1..Len(sorted) : sorted[k][2] <= item[2]})
         IN  SubSeq(sorted, 1, n) \o <<item>> \o SubSeq(sorted, n + 1, Len(sorted))

Reverse(l) == [k \in 1..Len(l) |-> l[Len(l) + 1 - k]]

\* data_by_type of one radius: grouped, deduplicated, sorted.
DataByType(radius) ==
    LET grouped == GroupByType(JoinedRows(radius))
    IN  [t \in DOMAIN grouped |-> SortByCount(UniqueByName(grouped[t]))]

\* top_5 and least_5 of one stop type
TopAndLeast(data, t) ==
    LET stops_list == Get(data, t, <<>>)
        top_5 == IF Len(stops_list) >= 5
                 THEN SubSeq(stops_list, Len(stops_list) - 4, Len(stops_list))
                 ELSE stops_list
        least_5 == SubSeq(stops_list, 1, Min(5, Len(stops_list)))
    IN  [most |-> top_5, least |-> least_5]

StatsBegin ==
    /\ pc \in {"stats_main", "stats_done"}
    /\ r_idx' = 1
    /\ data_by_type' = <<>>
    /\ results' = [r \in {POI_RADII[k] : k \in 1..Len(POI_RADII)} |-> <<>>]
    /\ pc' = "stats_radius"
    /\ UNCHANGED <<stops, pois, septa_src, septa_locals, poi_src, pois_locals,
                   rows_at_start, env>>

\* One iteration of the loop over POI_RADII.
StatsRadius ==
    /\ pc = "stats_radius"
    /\ r_idx <= Len(POI_RADII)
    /\ LET radius == POI_RADII[r_idx]
           data == DataByType(radius)
       IN  /\ data_by_type' = data
           /\ results' = [results EXCEPT ![radius] =
                             [t \in StopTypeSet |-> TopAndLeast(data, t)]]
    /\ r_idx' = r_idx + 1
    /\ pc' = IF r_idx = Len(POI_RADII) THEN "stats_write" ELSE "stats_radius"
    /\ UNCHANGED <<stops, pois, septa_src, septa_locals, poi_src, pois_locals,
                   rows_at_start, env>>

\* The report is written; most_list.reverse() reverses the lists in results.
StatsWrite ==
    /\ pc = "stats_write"
    /\ results' = [r \in DOMAIN results |->
                     [t \in StopTypeSet |->
                        [most |-> Reverse(results[r][t].most),
                         least |-> results[r][t].least]]]
    /\ pc' = "stats_done"
    /\ UNCHANGED <<stops, pois, septa_src, septa_locals, poi_src, pois_locals,
                   r_idx, data_by_type, rows_at_start, env>>

\* The POIs of a stop, by how they lie about the thresholds.
AggPoiChoices ==
    { <<>>, <<416>>, <<417, 1250>>, <<100, 416, 417>> }

\* Stored stops of the first two types, with names that may repeat.
AggStopChoices ==
    {<<t, n>> : t \in {STOP_TYPES[1], STOP_TYPES[2]}, n \in {101, 102}}

AggStops(c) ==
    [i \in 1..Len(c) |->
        [id |-> i, stop_type |-> c[i][1], stop_id |-> i, name |-> c[i][2],
         lat |-> 100 * TypeIndex(c[i][1]) + i, lon |-> i]]

RECURSIVE AggPois(_, _)
AggPois(d, n) ==
    IF n = 0 THEN <<>>
    ELSE LET before == AggPois(d, n - 1)
         IN  before \o [k \in 1..Len(d[n]) |->
                          [id |-> Len(before) + k, stop_id |-> n,
                           distance |-> d[n][k], name |-> "A", category |-> "atm"]]

InitStats ==
    /\ pc = "stats_main"
    /\ \E c \in [1..NumAggStops -> AggStopChoices] : stops = AggStops(c)
    /\ \E d \in [1..NumAggStops -> AggPoiChoices] : pois = AggPois(d, NumAggStops)
    /\ septa_src = [t \in StopTypeSet |-> <<>>]
    /\ septa_status = SeptaIdle.septa_status
    /\ beeg_keys = SeptaIdle.beeg_keys
    /\ beeg_data = SeptaIdle.beeg_data
    /\ num_inserted = SeptaIdle.num_inserted
    /\ stype = SeptaIdle.stype
    /\ septa_ret = SeptaIdle.septa_ret
    /\ poi_src = <<>>
    /\ all_stops = PoisIdle.all_stops
    /\ idx = PoisIdle.idx
    /\ inserted_count = PoisIdle.inserted_count
    /\ count_for_radius = PoisIdle.count_for_radius
    /\ pois_data = PoisIdle.pois_data
    /\ queries = PoisIdle.queries
    /\ ret = PoisIdle.ret
    /\ r_idx = StatsIdle.r_idx
    /\ data_by_type = StatsIdle.data_by_type
    /\ results = StatsIdle.results
    /\ rows_at_start = 0
    /\ kills = 0
    /\ failures = 0

NextStats == StatsBegin \/ StatsRadius \/ StatsWrite

SpecStats == InitStats /\ [][NextStats]_vars

\* The POIs of a stop in the stores with more stops than a list of five holds.
RankPoiChoices == { <<>>, <<416>>, <<417, 1250>> }

\* Stored stops: the first `split` of the first type, the others of the
\* second; the second stop has a name of its own or the name of the first.
RankStops(split, same) ==
    [i \in 1..NumRankStops |->
        LET t == IF i <= split THEN STOP_TYPES[1] ELSE STOP_TYPES[2]
        IN  [id |-> i, stop_type |-> t, stop_id |-> i,
             name |-> IF i = 2 /\ same THEN 101 ELSE 100 + i,
             lat |-> 100 * TypeIndex(t) + i, lon |-> i]]

InitStatsRank ==
    /\ pc = "stats_main"
    /\ \E split \in {3, NumRankStops - 1}, same \in BOOLEAN :
          stops = RankStops(split, same)
    /\ \E d \in [1..NumRankStops -> RankPoiChoices] : pois = AggPois(d, NumRankStops)
    /\ septa_src = [t \in StopTypeSet |-> <<>>]
    /\ septa_status = SeptaIdle.septa_status
    /\ beeg_keys = SeptaIdle.beeg_keys
    /\ beeg_data = SeptaIdle.beeg_data
    /\ num_inserted = SeptaIdle.num_inserted
    /\ stype = SeptaIdle.stype
    /\ septa_ret = SeptaIdle.septa_ret
    /\ poi_src = <<>>
    /\ all_stops = PoisIdle.all_stops
    /\ idx = PoisIdle.idx
    /\ inserted_count = PoisIdle.inserted_count
    /\ count_for_radius = PoisIdle.count_for_radius
    /\ pois_data = PoisIdle.pois_data
    /\ queries = PoisIdle.queries
    /\ ret = PoisIdle.ret
    /\ r_idx = StatsIdle.r_idx
    /\ data_by_type = StatsIdle.data_by_type
    /\ results = StatsIdle.results
    /\ rows_at_start = 0
    /\ kills = 0
    /\ failures = 0

SpecStatsRank == InitStatsRank /\ [][NextStats]_vars

----------------------------------------------------------------------------
(* The three scripts together: the process runs one of them. *)

Init == InitSepta \/ InitPois \/ InitStats

Next == NextSepta \/ NextPois \/ NextStats

Spec == Init /\ [][Next]_vars

\* The two ingestion scripts.
SpecBatchers == (InitSepta \/ InitPois) /\ [][NextSepta \/ NextPois]_vars

----------------------------------------------------------------------------
(* Claims on store_pois *)

PoisRunning == pc \in {"pois_for", "pois_insert"}

\* The record at the head of pois_data, as store_pois reads it, is a row of
\* the stop visited.
HeadPoiIsStored ==
    /\ Len(pois_data) > 0
    /\ \E i \in 1..Len(pois) :
          /\ pois[i].stop_id = all_stops[idx].id
          /\ pois[i].distance = pois_data[1].distance
          /\ pois[i].category = Get(pois_data[1], "class", "Unknown Category")
          /\ pois[i].name = Get(pois_data[1], "name", "Unknown Name")

\* C2: whatever sequence of invocations ran, to completion or killed, the
\* table pois never holds two rows with the same
\* (stop_id, distance, category, name).
C2_PoiKeyUnique ==
    Cardinality({<<pois[i].stop_id, pois[i].distance, pois[i].category,
                   pois[i].name>> : i \in 1..Len(pois)}) = Len(pois)

\* C2 witness: after a kill, a later invocation that found rows in the table
\* and added some meets a record that is stored already.
C2_Witness ==
    /\ pc = "pois_insert"
    /\ kills > 0
    /\ rows_at_start > 0
    /\ inserted_count > 0
    /\ HeadPoiIsStored

\* The stop the for loop is at is about to be counted.
AtVisit ==
    /\ pc = "pois_for"
    /\ idx <= Len(all_stops)
    /\ inserted_count < BATCH_SIZE

QueriedStops == {queries[k].stop_id : k \in 1..Len(queries)}

\* C7: a stop that holds 50 or more rows when it is visited gets no query and
\* no row; a stop with fewer rows, visited before the cap is reached, gets
\* one query, at radius 1250, and it is its only query of the invocation (the
\* loop over its response sends none); rows are inserted only for the stop
\* visited, which was queried and held fewer than 50 rows when counted.
C7_SaturatedSkipped ==
    [][/\ (AtVisit /\ pc' # "pois_main") =>
            LET s == all_stops[idx].id
            IN  IF PoiCount(s) >= POI_ENOUGH
                THEN queries' = queries /\ pois' = pois /\ pc' = "pois_for"
                ELSE /\ Len(queries') = Len(queries) + 1
                     /\ SubSeq(queries', 1, Len(queries)) = queries
                     /\ queries'[Len(queries')].stop_id = s
                     /\ queries'[Len(queries')].radius = 1250
                     /\ s \notin QueriedStops
       /\ (pc = "pois_insert" /\ pc' # "pois_main") => queries' = queries
       /\ Len(pois') > Len(pois) =>
            /\ pc = "pois_insert"
            /\ count_for_radius < POI_ENOUGH
            /\ pois'[Len(pois')].stop_id = all_stops[idx].id
            /\ all_stops[idx].id \in QueriedStops]_vars

\* C7 witness: the loop has just passed a stop that held 50 rows, in an
\* invocation that began with that stop saturated.
C7_Witness ==
    /\ pc = "pois_for"
    /\ idx > 1
    /\ count_for_radius >= POI_ENOUGH
    /\ PoiCount(all_stops[idx - 1].id) >= POI_ENOUGH
    /\ all_stops[idx - 1].id \notin QueriedStops

\* Every request of this invocation got a success response.
AllQueriesOk == \A k \in 1..Len(queries) : queries[k].status = HTTP_OK

\* The API lists, for stop row st, a POI that is not in the table.
HasUnstoredPoi(st) ==
    LET listing == NearbyPois(st.lat, st.lon, POI_RADII[3])
    IN  \E k \in 1..Len(listing) :
            ~\E i \in 1..Len(pois) :
                /\ pois[i].stop_id = st.id
                /\ pois[i].distance = listing[k].distance
                /\ pois[i].category = Get(listing[k], "class", "Unknown Category")
                /\ pois[i].name = Get(listing[k], "name", "Unknown Name")

\* No stop with fewer than 50 rows has a POI at the source that is not stored.
NothingRemains ==
    \A i \in 1..Len(stops) :
        PoiCount(stops[i].id) < POI_ENOUGH => ~HasUnstoredPoi(stops[i])

PoisAtStart == SubSeq(pois, 1, rows_at_start)

\* The stop touched last in table P, and the one touched before it.
MostRecentStop(P) == P[Len(P)].stop_id

SecondMostRecentStop(P) ==
    LET k == CHOOSE k \in 1..Len(P) :
                 /\ P[k].stop_id # MostRecentStop(P)
                 /\ \A j \in (k + 1)..Len(P) : P[j].stop_id = MostRecentStop(P)
    IN  P[k].stop_id

\* The stops in stored order, begun at the stop with id s and wrapped.
RotatedTo(s) ==
    LET all == SelectAllStops
        k == CHOOSE k \in 1..Len(all) : all[k].id = s
    IN  SubSeq(all, k, Len(all)) \o SubSeq(all, 1, k - 1)

\* C9: an invocation that finds at least two distinct stops referenced in
\* pois visits the stops in stored order begun at the second-most-recently
\* touched stop and wrapped around; otherwise in stored order from the first.
C9_RestartPoint ==
    (PoisRunning \/ pc = "pois_done") =>
        LET P == PoisAtStart
        IN  IF Cardinality({P[i].stop_id : i \in 1..Len(P)}) >= 2
            THEN all_stops = RotatedTo(SecondMostRecentStop(P))
            ELSE all_stops = SelectAllStops

----------------------------------------------------------------------------
(* Claims on both batchers *)

\* C3: an invocation of store_septa_stops, or of store_pois, adds at most
\* BATCH_SIZE (25) rows to its table.
C3_BatchCap ==
    /\ pc \in {"septa_main", "septa_loop", "septa_inner", "septa_done"}
          => Len(stops) - rows_at_start <= 25
    /\ pc \in {"pois_main", "pois_for", "pois_insert", "pois_done"}
          => Len(pois) - rows_at_start <= 25

\* C3 witness: store_pois returned after adding 25 rows while the source
\* still lists a POI that is not stored.
C3_Witness ==
    /\ pc = "pois_done"
    /\ Len(pois) - rows_at_start = 25
    /\ \E i \in 1..Len(stops) : HasUnstoredPoi(stops[i])

----------------------------------------------------------------------------
(* Claims on calculate_data *)

\* The number of POIs of stop row st within the threshold.
PoisWithin(st, radius) ==
    Cardinality({k \in 1..Len(pois) :
                    pois[k].stop_id = st.id /\ pois[k].distance <= radius})

SetMax(S) == CHOOSE x \in S : \A y \in S : y <= x

\* The aggregation of a radius is at hand.
RadiusDone ==
    /\ pc \in {"stats_radius", "stats_write", "stats_done"}
    /\ r_idx > 1

\* C10: for the threshold just aggregated and every stop type, the entries
\* are one per distinct name of the stored stops of the type, each with the
\* largest count, over the stops of that type and name, of the stop's POIs
\* within the threshold.
C10_OnePerNameMax ==
    RadiusDone =>
        LET radius == POI_RADII[r_idx - 1]
        IN  \A t \in StopTypeSet :
              LET l == Get(data_by_type, t, <<>>)
                  S == {i \in 1..Len(stops) : stops[i].stop_type = t}
              IN  /\ {l[k][1] : k \in 1..Len(l)} = {stops[i].name : i \in S}
                  /\ Len(l) = Cardinality({stops[i].name : i \in S})
                  /\ \A k \in 1..Len(l) :
                        l[k][2] = SetMax({PoisWithin(stops[i], radius) :
                                            i \in {j \in S : stops[j].name = l[k][1]}})

\* C10 witness: two stops of one type share a name, the later one with the
\* larger count at the threshold, and a stop with POIs has none within the threshold.
C10_Witness ==
    /\ RadiusDone
    /\ LET radius == POI_RADII[r_idx - 1]
       IN  /\ \E i, j \in 1..Len(stops) :
                 /\ i < j
                 /\ stops[i].stop_type = stops[j].stop_type
                 /\ stops[i].name = stops[j].name
                 /\ PoisWithin(stops[i], radius) < PoisWithin(stops[j], radius)
           /\ \E i \in 1..Len(stops) :
                 /\ PoisWithin(stops[i], radius) = 0
                 /\ PoisWithin(stops[i], POI_RADII[3]) > 0

\* The deduplicated entries of a threshold and stop type, in first-seen order.
Entries(radius, t) == UniqueByName(Get(GroupByType(JoinedRows(radius)), t, <<>>))

\* The number of entries of E that come before E[i] when E is sorted ascending
\* by count with ties in first-seen order.
RankIn(E, i) ==
    Cardinality({j \in 1..Len(E) :
                    \/ E[j][2] < E[i][2]
                    \/ E[j][2] = E[i][2] /\ j < i})

ReportWritten == pc = "stats_done"

\* C11: in the written report, for every threshold and stop type with n
\* deduplicated entries, the 'least' list is the first min(5, n) entries of the
\* entries sorted ascending by count with ties in first-seen order, and the
\* 'most' list holds min(5, n) distinct entries in descending order of count,
\* none of them with a smaller count than an entry left out.
C11_MostAndLeast ==
    ReportWritten =>
        \A k \in 1..Len(POI_RADII) : \A t \in StopTypeSet :
            LET E == Entries(POI_RADII[k], t)
                m == Min(5, Len(E))
                least == results[POI_RADII[k]][t].least
                most == results[POI_RADII[k]][t].most
            IN  /\ Len(least) = m
                /\ \A i \in 1..Len(E) :
                      RankIn(E, i) < m => least[RankIn(E, i) + 1] = E[i]
                /\ Len(most) = m
                /\ \A a \in 1..m : \E i \in 1..Len(E) : most[a] = E[i]
                /\ \A a, b \in 1..m : a < b =>
                      most[a] # most[b] /\ most[a][2] >= most[b][2]
                /\ \A i \in 1..Len(E) :
                      (\A a \in 1..m : most[a] # E[i]) =>
                          \A a \in 1..m : E[i][2] <= most[a][2]

\* C11 witness: the report is written; at one threshold a stop type has more
\* than five entries, with a tie inside the 'least' list and a tie between an
\* entry of the 'least' list and an entry left out of it, and another stop
\* type has entries but fewer than five.
C11_Witness ==
    /\ ReportWritten
    /\ \E k \in 1..Len(POI_RADII) : \E t, u \in StopTypeSet :
          LET E == Entries(POI_RADII[k], t)
              least == results[POI_RADII[k]][t].least
              F == Entries(POI_RADII[k], u)
          IN  /\ Len(E) > 5
              /\ least[1][2] = least[2][2]
              /\ \E i \in 1..Len(E) : RankIn(E, i) >= 5 /\ E[i][2] = least[5][2]
              /\ Len(F) \in 1..4
              /\ results[POI_RADII[k]][u].most = Reverse(results[POI_RADII[k]][u].least)

----------------------------------------------------------------------------
(* Claims on the value of a call of store_septa_stops *)

SeptaReturned == pc = "septa_done" /\ septa_ret.returned

\* C12: a call of store_septa_stops that returns, returns an integer between
\* 0 and BATCH_SIZE that equals the number of rows by which the stops table
\* grew during the call.
C12_ReturnsInsertedCount ==
    SeptaReturned =>
        /\ septa_ret.type = "int"
        /\ septa_ret.value \in 0..BATCH_SIZE
        /\ septa_ret.value = Len(stops) - rows_at_start

----------------------------------------------------------------------------
(* Claims on repeated invocations of store_pois *)

\* Every POI the API lists for a stop, of any stop, is in the table.
AllListedStored == \A i \in 1..Len(stops) : ~HasUnstoredPoi(stops[i])

PoisReturned == pc = "pois_done"

SignalsExhaustion == PoisReturned /\ ret < BATCH_SIZE

\* C13: with the stored stops fixed and every request answered with the same
\* listing per stop, repeated invocations of store_pois progress: the rows of
\* pois are never changed or removed, an invocation that returns without
\* signalling exhaustion has inserted exactly 25 rows, eventually an
\* invocation returns fewer than 25, and whenever one does every POI the API
\* lists for every stop is stored.
C13_ForwardProgress ==
    /\ [][/\ Len(pois') >= Len(pois)
          /\ SubSeq(pois', 1, Len(pois)) = pois
          /\ stops' = stops /\ poi_src' = poi_src]_vars
    /\ []((PoisReturned /\ ~SignalsExhaustion) =>
            (ret = BATCH_SIZE /\ Len(pois) = rows_at_start + BATCH_SIZE))
    /\ <>SignalsExhaustion
    /\ [](SignalsExhaustion => AllListedStored)

\* C13 witness: an invocation signals exhaustion after inserting some rows,
\* the table holding at least two batches from the invocations before it.
C13_Witness ==
    /\ SignalsExhaustion
    /\ ret > 0
    /\ Len(pois) = rows_at_start + ret
    /\ rows_at_start >= 2 * BATCH_SIZE
    /\ AllListedStored

====
